---- MODULE Spec2Model ----
(***************************************************************************)
(* Model of oxiboard's drawing core (src/board.rs): the Board state        *)
(* machine over {Static, Active}, the StaticBoard / ActiveBoard payloads   *)
(* it owns, and the primitives Glyph::draw emits to a cairo context; and   *)
(* of the event handlers of the application (src/app.rs).                  *)
(***************************************************************************)
EXTENDS Integers, Sequences, FiniteSets, TLC

\* ---------------------------------------------------------------- bounds
\* Largest number of glyphs on the board (begin_drawing is not called beyond).
MaxGlyphs == 3
\* Largest number of points held by the whole board (all glyphs together).
MaxTotalPoints == 6

\* Point = (f64, f64): the pointer positions sampled, integral and so exact
\* in f64.
Point == {<<0, 0>>, <<10, 0>>}

VARIABLES
    board,      \* the Board value: the enum variant and its payload
    result,     \* the most recent call: its name, argument and return value
    ctx,        \* the cairo calls made on the context of the most recent call
    panicked,   \* TRUE once a call has panicked (the process is gone)
    nBegin,     \* number of begin_drawing calls that returned Ok
    nFinish,    \* number of finish calls that returned Ok
    lines,      \* Oxiboard.lines
    last_pos,   \* Oxiboard.last_pos
    held        \* TRUE from a press with coordinates to the next release

boardVars == <<board, panicked, nBegin, nFinish>>
appVars == <<lines, last_pos, held>>
vars == <<board, result, ctx, panicked, nBegin, nFinish, lines, last_pos, held>>

\* ------------------------------------------------------- Option / Result
None == [some |-> FALSE]
Some(v) == [some |-> TRUE, value |-> v]

\* The unit value (), and a call's return value: Ok(v), Err(e), or a plain
\* value v for the methods that return no Result.
Unit == <<>>
Return(v) == [ok |-> TRUE, value |-> v]
Ok == Return(Unit)
Err(e) == [ok |-> FALSE, err |-> e]

\* --------------------------------------------------- WrongBoardStateError
expected_static(description) ==
    [is_active |-> TRUE, description |-> description]

expected_active(description) ==
    [is_active |-> FALSE, description |-> description]

\* ------------------------------------------------ StaticBoard/ActiveBoard
StaticBoard_new == [glyphs |-> <<>>]

\* Variant: builds the ActiveBoard around a new StaticBoard, not around self.
StaticBoard_begin_drawing_NewBoard(self, initial_point) ==
    [board |-> StaticBoard_new,
     current_glyph |-> [points |-> <<initial_point>>]]

StaticBoard_begin_drawing(self, initial_point) ==
    [board |-> self, current_glyph |-> [points |-> <<initial_point>>]]

\* Variant: inserts the point at the front of the glyph.
ActiveBoard_add_point_Front(self, point) ==
    [self EXCEPT !.current_glyph.points = <<point>> \o @]

\* Variant: drops a point equal to the last point of the glyph.
ActiveBoard_add_point_Dedup(self, point) ==
    IF self.current_glyph.points[Len(self.current_glyph.points)] = point
    THEN self
    ELSE [self EXCEPT !.current_glyph.points = Append(@, point)]

ActiveBoard_add_point(self, point) ==
    [self EXCEPT !.current_glyph.points = Append(@, point)]

ActiveBoard_current_glyph(self) == self.current_glyph

\* Variant: inserts the glyph at the front of the finished glyphs.
ActiveBoard_finish_Front(self) ==
    [glyphs |-> <<self.current_glyph>> \o self.board.glyphs]

\* Variant: the glyph overwrites the last finished glyph, if there is one.
ActiveBoard_finish_Replace(self) ==
    IF self.board.glyphs = <<>>
    THEN [glyphs |-> <<self.current_glyph>>]
    ELSE [glyphs |-> [self.board.glyphs EXCEPT
                          ![Len(self.board.glyphs)] = self.current_glyph]]

ActiveBoard_finish(self) ==
    [glyphs |-> Append(self.board.glyphs, self.current_glyph)]

\* ------------------------------------------------------------ enum Board
Static(b) == [tag |-> "Static", static |-> b]
Active(b) == [tag |-> "Active", active |-> b]

\* EnumAsInner: the payload if the value is that variant, nothing otherwise.
into_static(b) == IF b.tag = "Static" THEN Some(b.static) ELSE None
into_active(b) == IF b.tag = "Active" THEN Some(b.active) ELSE None

Board_new == Static(StaticBoard_new)

\* Variant: the match arms swapped.
Board_is_active_Swapped(self) == IF self.tag = "Active" THEN FALSE ELSE TRUE

Board_is_active(self) == IF self.tag = "Active" THEN TRUE ELSE FALSE

\* Each mutating method is a function of the Board and its argument giving
\* the Board afterwards, the value returned and whether the call panicked
\* (unwrap() of an absent payload inside take_mut::take).
\* Variant: no state check before take_mut::take, so the unwrap() decides.
Board_begin_drawing_Unguarded(self, initial_point) ==
    LET payload == IF self.tag = "Static" THEN Some(self.static) ELSE None IN
    IF ~payload.some
    THEN [self |-> self, panic |-> TRUE, ret |-> Ok]
    ELSE [self |-> [tag |-> "Active",
                    active |-> StaticBoard_begin_drawing(payload.value,
                                                         initial_point)],
          panic |-> FALSE, ret |-> Ok]

Board_begin_drawing(self, initial_point) ==
    IF self.tag # "Static"
    THEN [self |-> self, panic |-> FALSE,
          ret |-> Err(expected_static("cannot start drawing another glyph"))]
    ELSE LET payload == into_static(self) IN
         IF ~payload.some
         THEN [self |-> self, panic |-> TRUE, ret |-> Ok]
         ELSE [self |-> Active(StaticBoard_begin_drawing(payload.value,
                                                         initial_point)),
               panic |-> FALSE, ret |-> Ok]

\* Variant: the Static arm builds the error with expected_static.
Board_add_point_WrongError(self, point) ==
    IF self.tag = "Active"
    THEN [self |-> [tag |-> "Active",
                    active |-> ActiveBoard_add_point(self.active, point)],
          panic |-> FALSE, ret |-> Ok]
    ELSE [self |-> self, panic |-> FALSE,
          ret |-> Err(expected_static("cannot add a point to the current glyph"))]

\* Variant: a point added to a Static board silently starts a glyph.
Board_add_point_Lenient(self, point) ==
    IF self.tag = "Active"
    THEN [self |-> [tag |-> "Active",
                    active |-> ActiveBoard_add_point(self.active, point)],
          panic |-> FALSE, ret |-> Ok]
    ELSE [self |-> [tag |-> "Active",
                    active |-> StaticBoard_begin_drawing(self.static, point)],
          panic |-> FALSE, ret |-> Ok]

Board_add_point(self, point) ==
    IF self.tag = "Active"
    THEN [self |-> Active(ActiveBoard_add_point(self.active, point)),
          panic |-> FALSE, ret |-> Ok]
    ELSE [self |-> self, panic |-> FALSE,
          ret |-> Err(expected_active("cannot add a point to the current glyph"))]

\* Variant: finish on a Static board is accepted as a no-op.
Board_finish_Idempotent(self) ==
    IF self.tag # "Active"
    THEN [self |-> self, panic |-> FALSE, ret |-> Ok]
    ELSE [self |-> [tag |-> "Static",
                    static |-> ActiveBoard_finish(self.active)],
          panic |-> FALSE, ret |-> Ok]

Board_finish(self) ==
    IF self.tag # "Active"
    THEN [self |-> self, panic |-> FALSE,
          ret |-> Err(expected_active("cannot finish drawing the current glyph"))]
    ELSE LET payload == into_active(self) IN
         IF ~payload.some
         THEN [self |-> self, panic |-> TRUE, ret |-> Ok]
         ELSE [self |-> Static(ActiveBoard_finish(payload.value)),
               panic |-> FALSE, ret |-> Ok]

\* ------------------------------------------------------------ Glyph::draw
\* points[i] with Rust's 0-based index; the access panics out of range.
InRange(points, i) == i >= 0 /\ i < Len(points)
At(points, i) == points[i + 1]

\* Point2D - Point2D, a Vector2D.
Minus(a, b) == <<a[1] - b[1], a[2] - b[2]>>

\* Directions are kept symbolic: the vector, and whether it was normalised.
Vector2D_zero == [v |-> <<0, 0>>, unit |-> FALSE]
Vector(v) == [v |-> v, unit |-> FALSE]

\* Variant: normalize(), which divides by the length whatever it is.
try_normalize_Unchecked(v) == Some([v |-> v, unit |-> TRUE])

\* try_normalize(): nothing for a vector of length zero.
try_normalize(v) ==
    IF v = <<0, 0>> THEN None ELSE Some([v |-> v, unit |-> TRUE])

unwrap_or_else(opt, default) == IF opt.some THEN opt.value ELSE default

\* const RATIO: f64 = 1.0 / 3.0, as numerator and denominator.
RATIO == <<1, 3>>

\* base + sign * direction * RATIO, the handle of the two end segments.
StraightHandle(base, sign, delta) ==
    [base |-> base, sign |-> sign, direction |-> Vector(delta),
     length_of |-> <<>>, ratio |-> RATIO]

\* base + sign * direction * delta.length() * RATIO.
TangentHandle(base, sign, direction, delta) ==
    [base |-> base, sign |-> sign, direction |-> direction,
     length_of |-> <<delta>>, ratio |-> RATIO]

move_to(p) == [op |-> "move_to", to |-> p]
line_to(p) == [op |-> "line_to", to |-> p]
curve_to(h1, h2, p) == [op |-> "curve_to", h1 |-> h1, h2 |-> h2, to |-> p]
stroke == [op |-> "stroke"]
set_source_rgb(r, g, b) == [op |-> "set_source_rgb", rgb |-> <<r, g, b>>]
set_line_cap(cap) == [op |-> "set_line_cap", cap |-> cap]

\* Variant: the tangent at the destination is taken from next - destination.
FirstSegment_OwnChord(points) ==
    LET origin == At(points, 0)
        destination == At(points, 1)
        next == At(points, 2)
        parallel_direction_next ==
            unwrap_or_else(try_normalize(Minus(next, destination)),
                           Vector2D_zero)
        delta == Minus(destination, origin)
        handle1 == StraightHandle(origin, 1, delta)
        handle2 == TangentHandle(destination, -1, parallel_direction_next, delta)
    IN  <<move_to(origin), curve_to(handle1, handle2, destination)>>

\* The block for the first segment: points[0], points[1], points[2].
FirstSegment(points) ==
    LET origin == At(points, 0)
        destination == At(points, 1)
        next == At(points, 2)
        parallel_direction_next ==
            unwrap_or_else(try_normalize(Minus(next, origin)), Vector2D_zero)
        delta == Minus(destination, origin)
        handle1 == StraightHandle(origin, 1, delta)
        handle2 == TangentHandle(destination, -1, parallel_direction_next, delta)
    IN  <<move_to(origin), curve_to(handle1, handle2, destination)>>

\* The body of the loop over points.windows(4), for the window starting at
\* the 0-based index w.
WindowSegment(points, w) ==
    LET prev == At(points, w)
        origin == At(points, w + 1)
        destination == At(points, w + 2)
        next == At(points, w + 3)
        parallel_direction_prev ==
            unwrap_or_else(try_normalize(Minus(destination, prev)), Vector2D_zero)
        parallel_direction_next ==
            unwrap_or_else(try_normalize(Minus(next, origin)), Vector2D_zero)
        delta == Minus(destination, origin)
        handle1 == TangentHandle(origin, 1, parallel_direction_prev, delta)
        handle2 == TangentHandle(destination, -1, parallel_direction_next, delta)
    IN  <<move_to(origin), curve_to(handle1, handle2, destination)>>

\* Variant: the loop stops one window early.
RECURSIVE WindowSegments_Short(_, _)
WindowSegments_Short(points, w) ==
    IF w + 4 >= Len(points) THEN <<>>
    ELSE WindowSegment(points, w) \o WindowSegments_Short(points, w + 1)

\* windows(4) yields the windows starting at 0 .. len-4, none if len < 4.
RECURSIVE WindowSegments(_, _)
WindowSegments(points, w) ==
    IF w + 4 > Len(points) THEN <<>>
    ELSE WindowSegment(points, w) \o WindowSegments(points, w + 1)

\* Variant: the last handle is placed beyond the destination.
LastSegment_Beyond(points) ==
    LET num_points == Len(points)
        prev == At(points, num_points - 3)
        origin == At(points, num_points - 2)
        destination == At(points, num_points - 1)
        parallel_direction_prev ==
            unwrap_or_else(try_normalize(Minus(destination, prev)), Vector2D_zero)
        delta == Minus(destination, origin)
        handle1 == TangentHandle(origin, 1, parallel_direction_prev, delta)
        handle2 == StraightHandle(destination, 1, delta)
    IN  <<move_to(origin), curve_to(handle1, handle2, destination)>>

\* The block for the last segment: points[n-3], points[n-2], points[n-1].
LastSegment(points) ==
    LET num_points == Len(points)
        prev == At(points, num_points - 3)
        origin == At(points, num_points - 2)
        destination == At(points, num_points - 1)
        parallel_direction_prev ==
            unwrap_or_else(try_normalize(Minus(destination, prev)), Vector2D_zero)
        delta == Minus(destination, origin)
        handle1 == TangentHandle(origin, 1, parallel_direction_prev, delta)
        handle2 == StraightHandle(destination, -1, delta)
    IN  <<move_to(origin), curve_to(handle1, handle2, destination)>>

\* Variant: the early return for two points is missing.
Glyph_draw_indexes_NoTwo(n) ==
    IF n = 1 THEN {0}
    ELSE {0, 1, 2, n - 3, n - 2, n - 1}

\* The indexes of self.points that draw reads, for a glyph of n points.
Glyph_draw_indexes(n) ==
    IF n = 1 THEN {0}
    ELSE IF n = 2 THEN {0, 1}
    ELSE {0, 1, 2, n - 3, n - 2, n - 1}

\* Variant: a glyph of one point is stroked without the line_to.
Glyph_draw_NoDot(self) ==
    LET points == self.points
        num_points == Len(points)
        style == <<set_source_rgb(0, 0, 1), set_line_cap("Round")>>
    IN  IF \E i \in Glyph_draw_indexes(num_points) : ~InRange(points, i)
        THEN [panic |-> TRUE, calls |-> style]
        ELSE [panic |-> FALSE,
              calls |->
                style \o <<move_to(At(points, 0))>> \o
                (IF num_points = 1
                 THEN <<stroke>>
                 ELSE IF num_points = 2
                 THEN <<line_to(At(points, 1)), stroke>>
                 ELSE FirstSegment(points) \o WindowSegments(points, 0) \o
                      LastSegment(points) \o <<stroke>>)]

\* Glyph::draw: the cairo calls made, and whether an index panicked.
Glyph_draw(self) ==
    LET points == self.points
        num_points == Len(points)
        style == <<set_source_rgb(0, 0, 1), set_line_cap("Round")>>
    IN  IF \E i \in Glyph_draw_indexes(num_points) : ~InRange(points, i)
        THEN [panic |-> TRUE, calls |-> style]
        ELSE [panic |-> FALSE,
              calls |->
                style \o <<move_to(At(points, 0))>> \o
                (IF num_points = 1
                 THEN <<line_to(At(points, 0)), stroke>>
                 ELSE IF num_points = 2
                 THEN <<line_to(At(points, 1)), stroke>>
                 ELSE FirstSegment(points) \o WindowSegments(points, 0) \o
                      LastSegment(points) \o <<stroke>>)]

\* Running two draws one after the other; the second is not reached if the
\* first panicked.
Then(first, second) ==
    IF first.panic THEN first
    ELSE [panic |-> second.panic, calls |-> first.calls \o second.calls]

RECURSIVE DrawGlyphsFrom(_, _)
DrawGlyphsFrom(glyphs, i) ==
    IF i > Len(glyphs) THEN [panic |-> FALSE, calls |-> <<>>]
    ELSE Then(Glyph_draw(glyphs[i]), DrawGlyphsFrom(glyphs, i + 1))

\* Variant: the glyph in progress is drawn first, below the finished ones.
ActiveBoard_draw_CurrentFirst(self) ==
    LET first == Glyph_draw(self.current_glyph)
        second == DrawGlyphsFrom(self.board.glyphs, 1)
    IN  IF first.panic THEN first
        ELSE [panic |-> second.panic, calls |-> first.calls \o second.calls]

StaticBoard_draw(self) == DrawGlyphsFrom(self.glyphs, 1)

ActiveBoard_draw(self) ==
    Then(StaticBoard_draw(self.board), Glyph_draw(self.current_glyph))

Board_draw(self) ==
    IF self.tag = "Active" THEN ActiveBoard_draw(self.active)
    ELSE StaticBoard_draw(self.static)

\* ------------------------------------------------------------ the machine
\* The finished glyphs and the glyph in progress, whichever payload holds
\* them.
Finished(b) ==
    IF b.tag = "Active" THEN b.active.board.glyphs ELSE b.static.glyphs

RECURSIVE SumPoints(_, _)
SumPoints(glyphs, i) ==
    IF i > Len(glyphs) THEN 0
    ELSE Len(glyphs[i].points) + SumPoints(glyphs, i + 1)

TotalPoints(b) ==
    SumPoints(Finished(b), 1) +
    (IF b.tag = "Active" THEN Len(b.active.current_glyph.points) ELSE 0)

\* The Oxiboard built in setup_gtk_app, before any event.
Oxiboard_new ==
    /\ lines = <<>>
    /\ last_pos = None
    /\ held = FALSE

Init ==
    /\ board = Board_new
    /\ result = [op |-> "new", arg |-> <<>>, ret |-> Return(Unit)]
    /\ ctx = <<>>
    /\ panicked = FALSE
    /\ nBegin = 0
    /\ nFinish = 0
    /\ Oxiboard_new

\* A host call of board.begin_drawing(initial_point).
begin_drawing(initial_point) ==
    /\ ~panicked
    /\ board.tag = "Static" =>
           /\ Len(Finished(board)) < MaxGlyphs
           /\ TotalPoints(board) < MaxTotalPoints
    /\ LET r == Board_begin_drawing(board, initial_point) IN
        /\ board' = r.self
        /\ panicked' = r.panic
        /\ result' = [op |-> "begin_drawing", arg |-> <<initial_point>>,
                      ret |-> r.ret]
        /\ nBegin' = IF r.ret.ok /\ ~r.panic THEN nBegin + 1 ELSE nBegin
    /\ ctx' = <<>>
    /\ UNCHANGED <<nFinish, appVars>>

\* A host call of board.add_point(point).
add_point(point) ==
    /\ ~panicked
    /\ board.tag = "Active" => TotalPoints(board) < MaxTotalPoints
    /\ LET r == Board_add_point(board, point) IN
        /\ board' = r.self
        /\ panicked' = r.panic
        /\ result' = [op |-> "add_point", arg |-> <<point>>, ret |-> r.ret]
    /\ ctx' = <<>>
    /\ UNCHANGED <<nBegin, nFinish, appVars>>

\* A host call of board.finish().
finish ==
    /\ ~panicked
    /\ LET r == Board_finish(board) IN
        /\ board' = r.self
        /\ panicked' = r.panic
        /\ result' = [op |-> "finish", arg |-> <<>>, ret |-> r.ret]
        /\ nFinish' = IF r.ret.ok /\ ~r.panic THEN nFinish + 1 ELSE nFinish
    /\ ctx' = <<>>
    /\ UNCHANGED <<nBegin, appVars>>

\* A host call of board.is_active().
is_active ==
    /\ ~panicked
    /\ result' = [op |-> "is_active", arg |-> <<>>,
                  ret |-> Return(Board_is_active(board))]
    /\ ctx' = <<>>
    /\ UNCHANGED <<board, panicked, nBegin, nFinish, appVars>>

\* The stroke styles a caller sets on the context before it calls draw:
\* the one app.rs sets (lines 132-134) and a different one.
Styles ==
    {[width |-> 5, rgb |-> <<0, 0, 1>>, cap |-> "Round"],
     [width |-> 2, rgb |-> <<1, 0, 0>>, cap |-> "Butt"]}

\* Variant: draw takes the board by &mut self and commits the glyph in
\* progress once it is rendered.
draw_Committing(style) ==
    /\ ~panicked
    /\ LET r == Board_draw(board) IN
        /\ ctx' = r.calls
        /\ panicked' = r.panic
    /\ board' = Board_finish(board).self
    /\ result' = [op |-> "draw", arg |-> <<style>>, ret |-> Return(Unit)]
    /\ UNCHANGED <<nBegin, nFinish, appVars>>

\* A host call of board.draw(ctx) on a cairo context the host has set to
\* style; ctx holds the calls draw makes on it.
draw(style) ==
    /\ ~panicked
    /\ LET r == Board_draw(board) IN
        /\ ctx' = r.calls
        /\ panicked' = r.panic
    /\ result' = [op |-> "draw", arg |-> <<style>>, ret |-> Return(Unit)]
    /\ UNCHANGED <<board, nBegin, nFinish, appVars>>

Next ==
    \/ \E p \in Point : begin_drawing(p)
    \/ \E p \in Point : add_point(p)
    \/ finish
    \/ is_active
    \/ \E style \in Styles : draw(style)

Spec == Init /\ [][Next]_vars

\* The first stroke of a board, sampled on the corners of a square: the
\* calls of Spec before the first finish, with pointer positions that are
\* not all on one line.
Corner == {<<0, 0>>, <<10, 0>>, <<10, 10>>, <<0, 10>>}

GlyphNext ==
    \/ \E p \in Corner : begin_drawing(p)
    \/ \E p \in Corner : add_point(p)
    \/ \E style \in Styles : draw(style)

GlyphSpec == Init /\ [][GlyphNext]_vars

\* --------------------------------------------------- Oxiboard (src/app.rs)
\* Largest number of lines the handlers are let to collect.
MaxLines == 3

set_line_width(w) == [op |-> "set_line_width", width |-> w]

\* What get_coords() of an event gives: Option<(f64, f64)>.
CoordsOpt == {None} \cup {Some(c) : c \in Corner}

\* Each handler is a function of the Oxiboard (its lines and last_pos) and
\* of the coordinates of the event, giving the Oxiboard afterwards.
Oxiboard_handle_button_press_event(self, coords) ==
    IF coords.some
    THEN [lines |-> Append(self.lines, <<coords.value, coords.value>>),
          last_pos |-> Some(coords.value)]
    ELSE self

Oxiboard_handle_button_release_event(self) ==
    [self EXCEPT !.last_pos = None]

\* Variant: last_pos is not moved on to the new position.
Oxiboard_handle_motion_notify_event_Anchored(self, coords) ==
    IF self.last_pos.some /\ coords.some
    THEN [lines |-> Append(self.lines, <<self.last_pos.value, coords.value>>),
          last_pos |-> self.last_pos]
    ELSE self

Oxiboard_handle_motion_notify_event(self, coords) ==
    IF self.last_pos.some /\ coords.some
    THEN [lines |-> Append(self.lines, <<self.last_pos.value, coords.value>>),
          last_pos |-> Some(coords.value)]
    ELSE self

draw_line(line) == <<move_to(line[1]), line_to(line[2]), stroke>>

RECURSIVE DrawLinesFrom(_, _)
DrawLinesFrom(ls, i) ==
    IF i > Len(ls) THEN <<>> ELSE draw_line(ls[i]) \o DrawLinesFrom(ls, i + 1)

\* The cairo calls handle_draw_event makes.
Oxiboard_handle_draw_event(self) ==
    <<set_line_width(5), set_source_rgb(0, 0, 1), set_line_cap("Round")>> \o
    DrawLinesFrom(self.lines, 1)

Oxiboard == [lines |-> lines, last_pos |-> last_pos]

\* A button press event delivered to the canvas.
handle_button_press_event(coords) ==
    /\ coords.some => Len(lines) < MaxLines
    /\ LET after == Oxiboard_handle_button_press_event(Oxiboard, coords) IN
        /\ lines' = after.lines
        /\ last_pos' = after.last_pos
    /\ held' = IF coords.some THEN TRUE ELSE held
    /\ result' = [op |-> "button_press", arg |-> <<coords>>,
                  ret |-> Return(Unit), queue_draw |-> TRUE]
    /\ ctx' = <<>>
    /\ UNCHANGED boardVars

\* A button release event delivered to the canvas.
handle_button_release_event ==
    /\ LET after == Oxiboard_handle_button_release_event(Oxiboard) IN
        /\ lines' = after.lines
        /\ last_pos' = after.last_pos
    /\ held' = FALSE
    /\ result' = [op |-> "button_release", arg |-> <<>>,
                  ret |-> Return(Unit), queue_draw |-> FALSE]
    /\ ctx' = <<>>
    /\ UNCHANGED boardVars

\* A pointer motion event delivered to the canvas.
handle_motion_notify_event(coords) ==
    /\ (last_pos.some /\ coords.some) => Len(lines) < MaxLines
    /\ LET after == Oxiboard_handle_motion_notify_event(Oxiboard, coords) IN
        /\ lines' = after.lines
        /\ last_pos' = after.last_pos
    /\ result' = [op |-> "motion_notify", arg |-> <<coords>>,
                  ret |-> Return(Unit), queue_draw |-> TRUE]
    /\ ctx' = <<>>
    /\ UNCHANGED <<boardVars, held>>

\* A draw event delivered to the canvas, with its cairo context.
handle_draw_event ==
    /\ ctx' = Oxiboard_handle_draw_event(Oxiboard)
    /\ result' = [op |-> "draw_event", arg |-> <<>>,
                  ret |-> Return(Unit), queue_draw |-> FALSE]
    /\ UNCHANGED <<boardVars, appVars>>

AppNext ==
    \/ \E coords \in CoordsOpt : handle_button_press_event(coords)
    \/ handle_button_release_event
    \/ \E coords \in CoordsOpt : handle_motion_notify_event(coords)
    \/ handle_draw_event

AppSpec == Init /\ [][AppNext]_vars

\* ------------------------------------------------------------ properties
\* The glyph in progress of an Active board.
Current(b) == b.active.current_glyph

\* C1: a Board made by Board::new() is not active and holds no finished
\* glyph; begin_drawing(p) on a Static board returns Ok, makes the board
\* Active with the in-progress glyph exactly [p], and leaves the finished
\* glyphs as they were.
C1_FreshAndBegin ==
    /\ [](result.op = "new" =>
             /\ Board_is_active(board) = FALSE
             /\ Finished(board) = <<>>)
    /\ [][(result'.op = "begin_drawing" /\ board.tag = "Static") =>
             /\ ~panicked'
             /\ result'.ret = Ok
             /\ Board_is_active(board') = TRUE
             /\ Current(board').points = result'.arg
             /\ Finished(board') = Finished(board)]_vars

\* begin_drawing has just succeeded on a board that already held a glyph.
C1_Witness ==
    /\ result.op = "begin_drawing"
    /\ result.ret.ok
    /\ board.tag = "Active"
    /\ Current(board).points = <<<<10, 0>>>>
    /\ Len(Finished(board)) >= 1

\* The strokes p0 .. pn tried from every Static board: n + 1 <= MaxStroke.
MaxStroke == 3
Strokes == UNION {[1..n -> Point] : n \in 1..MaxStroke}

\* add_point(ps[i]), ..., add_point(ps[Len(ps)]) in turn: the Board after
\* them and whether every call returned Ok.
RECURSIVE AddPoints(_, _, _)
AddPoints(b, ps, i) ==
    IF i > Len(ps) THEN [self |-> b, ok |-> TRUE]
    ELSE LET r == Board_add_point(b, ps[i])
             rest == AddPoints(r.self, ps, i + 1)
         IN  [self |-> rest.self,
              ok |-> r.ret = Ok /\ ~r.panic /\ rest.ok]

\* begin_drawing(ps[1]), the add_point calls for the rest of ps, finish().
RoundTrip(b, ps) ==
    LET begun == Board_begin_drawing(b, ps[1])
        added == AddPoints(begun.self, ps, 2)
        ended == Board_finish(added.self)
    IN  [self |-> ended.self,
         ok |-> /\ begun.ret = Ok /\ ~begun.panic
                /\ added.ok
                /\ ended.ret = Ok /\ ~ended.panic]

\* C2: from any Static board with k finished glyphs, begin_drawing(p0),
\* add_point(p1) .. add_point(pn), finish() all return Ok and leave the
\* board Static with k+1 finished glyphs: the k it had, then [p0, .., pn].
C2_RoundTrip ==
    (board.tag = "Static" /\ ~panicked) =>
        \A ps \in Strokes :
            LET r == RoundTrip(board, ps) IN
            /\ r.ok
            /\ r.self.tag = "Static"
            /\ Len(Finished(r.self)) = Len(Finished(board)) + 1
            /\ Finished(r.self)[Len(Finished(board)) + 1].points = ps
            /\ \A i \in 1..Len(Finished(board)) :
                   Finished(r.self)[i] = Finished(board)[i]

\* A finish has just completed the round trip of a three-point stroke on a
\* board that held a glyph before it.
C2_Witness ==
    /\ result.op = "finish"
    /\ result.ret.ok
    /\ board.tag = "Static"
    /\ Len(Finished(board)) = 2
    /\ Finished(board)[2].points = <<<<0, 0>>, <<10, 0>>, <<0, 0>>>>
    /\ board = RoundTrip(Static([glyphs |-> SubSeq(Finished(board), 1, 1)]),
                         Finished(board)[2].points).self

\* C3: begin_drawing(p) on an Active board returns the expected-static
\* error (is_active = true) and changes nothing: the board, its
\* in-progress glyph and its finished glyphs are as before.
C3_BeginWhileActive ==
    [][(result'.op = "begin_drawing" /\ board.tag = "Active") =>
         /\ ~panicked'
         /\ ~result'.ret.ok
         /\ result'.ret.err.is_active = TRUE
         /\ board'.tag = "Active"
         /\ Current(board').points = Current(board).points
         /\ Finished(board') = Finished(board)
         /\ board' = board]_vars

\* begin_drawing(p) has just failed on an Active board whose in-progress
\* glyph has two points, neither of them p, above a finished glyph.
C3_Witness ==
    /\ result.op = "begin_drawing"
    /\ result.arg = <<<<10, 0>>>>
    /\ ~result.ret.ok
    /\ board.tag = "Active"
    /\ Current(board).points = <<<<0, 0>>, <<0, 0>>>>
    /\ Len(Finished(board)) = 1

\* C4: add_point(p) on a Static board returns the expected-active error
\* (is_active = false) and mutates nothing.
C4_AddPointWhileStatic ==
    [][(result'.op = "add_point" /\ board.tag = "Static") =>
         /\ ~panicked'
         /\ ~result'.ret.ok
         /\ result'.ret.err.is_active = FALSE
         /\ board'.tag = "Static"
         /\ Finished(board') = Finished(board)
         /\ board' = board]_vars

\* add_point(p) has just failed on a Static board holding two glyphs.
C4_Witness ==
    /\ result.op = "add_point"
    /\ ~result.ret.ok
    /\ board.tag = "Static"
    /\ Len(Finished(board)) = 2
    /\ Finished(board)[1] # Finished(board)[2]

\* C5: finish() on a Static board returns the expected-active error
\* (is_active = false) and mutates nothing: no glyph is added, removed or
\* changed.
C5_FinishWhileStatic ==
    [][(result'.op = "finish" /\ board.tag = "Static") =>
         /\ ~panicked'
         /\ ~result'.ret.ok
         /\ result'.ret.err.is_active = FALSE
         /\ board'.tag = "Static"
         /\ Len(Finished(board')) = Len(Finished(board))
         /\ \A i \in 1..Len(Finished(board)) :
                Finished(board')[i] = Finished(board)[i]
         /\ board' = board]_vars

\* finish() has just failed on a Static board holding two glyphs.
C5_Witness ==
    /\ result.op = "finish"
    /\ ~result.ret.ok
    /\ board.tag = "Static"
    /\ Len(Finished(board)) = 2
    /\ Finished(board)[1] # Finished(board)[2]

\* C6: the board is always exactly one of Static (a StaticBoard and no
\* glyph in progress) and Active (a StaticBoard and exactly one glyph in
\* progress); successful begin_drawing and finish calls alternate, starting
\* with begin_drawing; is_active() is true exactly when one more
\* begin_drawing than finish has succeeded.
C6_OneStateAlternation ==
    /\ board.tag \in {"Static", "Active"}
    /\ board.tag = "Static" => DOMAIN board = {"tag", "static"}
    /\ board.tag = "Active" =>
           /\ DOMAIN board = {"tag", "active"}
           /\ DOMAIN board.active = {"board", "current_glyph"}
    /\ nBegin - nFinish \in {0, 1}
    /\ Board_is_active(board) <=> (nBegin = nFinish + 1)
    /\ ~Board_is_active(board) <=> (nBegin = nFinish)
    /\ result.op = "is_active" =>
           (result.ret.value <=> (nBegin = nFinish + 1))

\* is_active() has just returned true during the second stroke.
C6_Witness ==
    /\ result.op = "is_active"
    /\ result.ret.value = TRUE
    /\ nBegin = 2
    /\ nFinish = 1

\* C7: finish() on an Active board returns Ok, makes the board Static and
\* appends the in-progress glyph, with the points it had, at the end of
\* the finished glyphs; the glyphs finished before keep their points and
\* their order.
C7_FinishAppends ==
    [][(result'.op = "finish" /\ board.tag = "Active") =>
         /\ ~panicked'
         /\ result'.ret = Ok
         /\ board'.tag = "Static"
         /\ Len(Finished(board')) = Len(Finished(board)) + 1
         /\ Finished(board')[Len(Finished(board'))].points =
                Current(board).points
         /\ \A i \in 1..Len(Finished(board)) :
                Finished(board')[i] = Finished(board)[i]]_vars

\* finish() has just appended a third glyph after two different ones.
C7_Witness ==
    /\ result.op = "finish"
    /\ result.ret.ok
    /\ Len(Finished(board)) = 3
    /\ Finished(board)[1].points = <<<<0, 0>>>>
    /\ Finished(board)[2].points = <<<<10, 0>>>>
    /\ Finished(board)[3].points = <<<<10, 0>>, <<0, 0>>>>

\* C8: add_point(p) on an Active board returns Ok and appends p as the
\* last point of the in-progress glyph, also when p repeats the point
\* before it; the earlier points, the finished glyphs and the Active state
\* are unchanged.
C8_AddPointAppends ==
    [][(result'.op = "add_point" /\ board.tag = "Active") =>
         /\ ~panicked'
         /\ result'.ret = Ok
         /\ board'.tag = "Active"
         /\ Len(Current(board').points) = Len(Current(board).points) + 1
         /\ <<Current(board').points[Len(Current(board').points)]>> =
                result'.arg
         /\ \A i \in 1..Len(Current(board).points) :
                Current(board').points[i] = Current(board).points[i]
         /\ Finished(board') = Finished(board)]_vars

\* add_point(p) has just appended a point equal to the one before it.
C8_Witness ==
    /\ result.op = "add_point"
    /\ result.ret.ok
    /\ board.tag = "Active"
    /\ Current(board).points = <<<<0, 0>>, <<10, 0>>, <<10, 0>>>>
    /\ Len(Finished(board)) = 1

\* The mutating calls a host can make, and the sequences of them tried
\* from every reachable board.
MaxCalls == 2
Calls ==
    {[op |-> "begin_drawing", arg |-> <<p>>] : p \in Point} \cup
    {[op |-> "add_point", arg |-> <<p>>] : p \in Point} \cup
    {[op |-> "finish", arg |-> <<>>]}
CallSeqs == UNION {[1..n -> Calls] : n \in 0..MaxCalls}

Apply(b, c) ==
    IF c.op = "begin_drawing" THEN Board_begin_drawing(b, c.arg[1])
    ELSE IF c.op = "add_point" THEN Board_add_point(b, c.arg[1])
    ELSE Board_finish(b)

\* The board after the calls cs[i], .., cs[Len(cs)].
RECURSIVE Run(_, _, _)
Run(b, cs, i) ==
    IF i > Len(cs) THEN b ELSE Run(Apply(b, cs[i]).self, cs, i + 1)

\* The calls among cs[i], .., cs[Len(cs)] that return Ok in that run.
RECURSIVE Kept(_, _, _)
Kept(b, cs, i) ==
    IF i > Len(cs) THEN <<>>
    ELSE LET r == Apply(b, cs[i]) IN
         (IF r.ret.ok THEN <<cs[i]>> ELSE <<>>) \o Kept(r.self, cs, i + 1)

\* C9: whether a call succeeds depends on the board's state tag alone:
\* begin_drawing succeeds iff the board is Static, add_point and finish iff
\* it is Active; and the failed calls of any call sequence can be deleted
\* without changing the board the sequence ends in.
C9_GuardByTagOnly ==
    ~panicked =>
        /\ \A p \in Point :
               /\ Board_begin_drawing(board, p).ret.ok <=> board.tag = "Static"
               /\ Board_add_point(board, p).ret.ok <=> board.tag = "Active"
        /\ Board_finish(board).ret.ok <=> board.tag = "Active"
        /\ \A cs \in CallSeqs :
               Run(board, Kept(board, cs, 1), 1) = Run(board, cs, 1)

\* The misuse scenario: a begin_drawing has just failed on a board still
\* Active with the first glyph, the one point of the begin_drawing that
\* succeeded.
C9_Witness ==
    /\ result.op = "begin_drawing"
    /\ result.arg = <<<<10, 0>>>>
    /\ ~result.ret.ok
    /\ board = Active(StaticBoard_begin_drawing(StaticBoard_new, <<0, 0>>))
    /\ Run(Board_new, <<[op |-> "add_point", arg |-> <<<<10, 0>>>>],
                        [op |-> "begin_drawing", arg |-> <<<<0, 0>>>>],
                        [op |-> "begin_drawing", arg |-> <<<<10, 0>>>>]>>, 1)
          = board

\* Every glyph the board holds, finished or in progress.
Glyphs(b) ==
    {Finished(b)[i] : i \in 1..Len(Finished(b))} \cup
    (IF b.tag = "Active" THEN {Current(b)} ELSE {})

\* C10: no call panics, in the right state or the wrong one: the unwrap()
\* in begin_drawing and finish always finds the variant it expects, and
\* Glyph::draw reads no index outside the points of any glyph of the board.
C10_NoPanic ==
    /\ ~panicked
    /\ \A p \in Point :
           /\ ~Board_begin_drawing(board, p).panic
           /\ ~Board_add_point(board, p).panic
    /\ ~Board_finish(board).panic
    /\ ~Board_draw(board).panic
    /\ \A g \in Glyphs(board) :
           /\ Len(g.points) >= 1
           /\ \A i \in Glyph_draw_indexes(Len(g.points)) :
                  InRange(g.points, i)

\* draw has just rendered a board with a four-point glyph in progress
\* above a finished glyph of two points.
C10_Witness ==
    /\ result.op = "draw"
    /\ ~panicked
    /\ board.tag = "Active"
    /\ Len(Current(board).points) = 4
    /\ \E g \in Glyphs(board) : Len(g.points) = 2
    /\ Len(ctx) > 0

\* The renderings in a sequence of cairo calls: each ends with its stroke.
RECURSIVE Split(_, _, _)
Split(calls, i, cur) ==
    IF i > Len(calls) THEN (IF cur = <<>> THEN <<>> ELSE <<cur>>)
    ELSE IF calls[i].op = "stroke"
    THEN <<Append(cur, calls[i])>> \o Split(calls, i + 1, <<>>)
    ELSE Split(calls, i + 1, Append(cur, calls[i]))

Renderings(calls) == Split(calls, 1, <<>>)

\* The glyphs draw has to show, bottom first: the finished ones in the
\* order of their finish calls, then the glyph in progress.
Shown(b) ==
    Finished(b) \o (IF b.tag = "Active" THEN <<Current(b)>> ELSE <<>>)

\* C11: Board::draw emits the rendering of every finished glyph in
\* insertion order and then, iff the board is Active, the rendering of the
\* glyph in progress with all its points, last; on a Static board nothing
\* but the finished glyphs.
C11_DrawOrder ==
    (result.op = "draw" /\ ~panicked) =>
        /\ Len(Renderings(ctx)) = Len(Shown(board))
        /\ Len(Renderings(ctx)) =
              Len(Finished(board)) + (IF Board_is_active(board) THEN 1 ELSE 0)
        /\ \A k \in 1..Len(Shown(board)) :
               /\ Renderings(ctx)[k] = Glyph_draw(Shown(board)[k]).calls
               /\ Renderings(ctx)[k][3] = move_to(Shown(board)[k].points[1])

\* draw has just rendered, mid-stroke, two different finished glyphs and a
\* third, different glyph in progress.
C11_Witness ==
    /\ result.op = "draw"
    /\ board.tag = "Active"
    /\ Len(Finished(board)) = 2
    /\ Finished(board)[1].points = <<<<0, 0>>>>
    /\ Finished(board)[2].points = <<<<10, 0>>>>
    /\ Current(board).points = <<<<10, 0>>, <<0, 0>>, <<10, 0>>>>
    /\ Len(Renderings(ctx)) = 3

\* C12: draw and is_active are pure queries: a call of either leaves the
\* state tag, the finished glyphs and the points of the glyph in progress
\* as they were, and with them the outcome of every later begin_drawing,
\* add_point and finish: the next call of each returns the same value and
\* leaves the same board, so every call after it does too.
C12_PureQueries ==
    [][(result'.op \in {"draw", "is_active"}) =>
         /\ ~panicked'
         /\ board'.tag = board.tag
         /\ Finished(board') = Finished(board)
         /\ board.tag = "Active" =>
                Current(board').points = Current(board).points
         /\ board' = board
         /\ \A c \in Calls : Apply(board', c) = Apply(board, c)]_vars

\* draw has just been called mid-stroke, on a two-point glyph in progress
\* above a finished glyph.
C12_Witness ==
    /\ result.op = "draw"
    /\ board.tag = "Active"
    /\ Current(board).points = <<<<0, 0>>, <<10, 0>>>>
    /\ Len(Finished(board)) = 1
    /\ Len(ctx) > 0

\* The segments a sequence of cairo calls adds to the path, in order:
\* line_to and curve_to run from the current point, which move_to sets and
\* stroke clears.
RECURSIVE SegmentsFrom(_, _, _)
SegmentsFrom(calls, i, cur) ==
    IF i > Len(calls) THEN <<>>
    ELSE LET c == calls[i] IN
         IF c.op = "move_to" THEN SegmentsFrom(calls, i + 1, <<c.to>>)
         ELSE IF c.op = "stroke" THEN SegmentsFrom(calls, i + 1, <<>>)
         ELSE IF c.op = "line_to" /\ cur = <<>>
         THEN SegmentsFrom(calls, i + 1, <<c.to>>)
         ELSE IF c.op = "line_to"
         THEN <<[kind |-> "line", from |-> cur[1], to |-> c.to]>> \o
              SegmentsFrom(calls, i + 1, <<c.to>>)
         ELSE IF c.op = "curve_to" /\ cur = <<>>
         THEN <<[kind |-> "curve", from |-> c.h1.base, to |-> c.to,
                 h1 |-> c.h1, h2 |-> c.h2]>> \o
              SegmentsFrom(calls, i + 1, <<c.to>>)
         ELSE IF c.op = "curve_to"
         THEN <<[kind |-> "curve", from |-> cur[1], to |-> c.to,
                 h1 |-> c.h1, h2 |-> c.h2]>> \o
              SegmentsFrom(calls, i + 1, <<c.to>>)
         ELSE SegmentsFrom(calls, i + 1, cur)

Segments(calls) == SegmentsFrom(calls, 1, <<>>)

\* A draw call has just rendered the one glyph of the board, in progress.
DrawnGlyph ==
    /\ result.op = "draw"
    /\ ~panicked
    /\ board.tag = "Active"
    /\ Finished(board) = <<>>

\* C13: for a glyph of N >= 2 points Glyph::draw emits exactly N-1
\* segments in index order, a line for N = 2 and cubic curves for N >= 3,
\* and segment i runs exactly from points[i] to points[i+1]: no pair of
\* consecutive points is skipped or drawn twice.
C13_SegmentPerPair ==
    (DrawnGlyph /\ Len(Current(board).points) >= 2) =>
        LET points == Current(board).points
            N == Len(points)
            segs == Segments(ctx)
        IN  /\ Len(segs) = N - 1
            /\ \A i \in 0..(N - 2) :
                   /\ segs[i + 1].from = At(points, i)
                   /\ segs[i + 1].to = At(points, i + 1)
                   /\ segs[i + 1].kind = IF N = 2 THEN "line" ELSE "curve"

\* draw has just rendered the five-point glyph (0,0), (10,0), (10,10),
\* (0,10), (0,0): a first segment, two window segments and a last one.
C13_Witness ==
    /\ DrawnGlyph
    /\ Current(board).points =
          <<<<0, 0>>, <<10, 0>>, <<10, 10>>, <<0, 10>>, <<0, 0>>>>
    /\ Len(Segments(ctx)) = 4

\* C14: for a glyph of exactly one point p Glyph::draw emits exactly one
\* primitive, a stroked zero-length line from p to p, and no curve.
C14_SinglePointDot ==
    (DrawnGlyph /\ Len(Current(board).points) = 1) =>
        LET p == Current(board).points[1] IN
        /\ Segments(ctx) = <<[kind |-> "line", from |-> p, to |-> p]>>
        /\ Len(Renderings(ctx)) = 1
        /\ ctx[Len(ctx)] = stroke
        /\ \A k \in 1..Len(ctx) : ctx[k].op # "curve_to"

\* draw has just rendered the glyph begin_drawing((10,10)) started.
C14_Witness ==
    /\ DrawnGlyph
    /\ Current(board).points = <<<<10, 10>>>>
    /\ Len(Segments(ctx)) = 1

\* What a symbolic handle stands for: the point
\*   base + sign * d * l * ratio[1] / ratio[2]
\* where d is direction.v, divided by its length if direction.unit, and l is
\* the length of length_of[1] if there is one and 1 otherwise.
\* Dividing the zero vector by its length is 0/0, not a number.
WellDefined(h) == ~(h.direction.unit /\ h.direction.v = <<0, 0>>)

\* The offset from the base is exactly zero.
OffsetZero(h) ==
    /\ WellDefined(h)
    /\ \/ h.direction.v = <<0, 0>>
       \/ h.length_of = <<<<0, 0>>>>

\* The handle is the point p itself.
CollapsedTo(h, p) == h.base = p /\ OffsetZero(h)

\* The tangent direction along t: t normalised, or zero if t has no length.
Tangent(t) ==
    IF t = <<0, 0>> THEN [v |-> <<0, 0>>, unit |-> FALSE]
    ELSE [v |-> t, unit |-> TRUE]

\* C15: for N >= 3, at every interior point points[i] the handle2 of the
\* segment that ends there and the handle1 of the segment that starts
\* there lie along the same tangent, points[i+1] - points[i-1] normalised
\* (or zero), on opposite sides of points[i]; also at i = 1 and i = N-2.
C15_TangentContinuity ==
    (DrawnGlyph /\ Len(Current(board).points) >= 3) =>
        LET points == Current(board).points
            N == Len(points)
            segs == Segments(ctx)
        IN  \A i \in 1..(N - 2) :
                LET into == segs[i]
                    out == segs[i + 1]
                    t == Tangent(Minus(At(points, i + 1), At(points, i - 1)))
                IN  /\ into.to = At(points, i) /\ out.from = At(points, i)
                    /\ into.h2.base = At(points, i)
                    /\ out.h1.base = At(points, i)
                    /\ into.h2.direction = t
                    /\ out.h1.direction = t
                    /\ into.h2.sign = -1
                    /\ out.h1.sign = 1
                    /\ into.h2.length_of = <<Minus(into.to, into.from)>>
                    /\ out.h1.length_of = <<Minus(out.to, out.from)>>

\* draw has just rendered the glyph (0,0), (10,0), (10,10), (0,10): two
\* interior points, one joining the first segment and one the last.
C15_Witness ==
    /\ DrawnGlyph
    /\ Current(board).points = <<<<0, 0>>, <<10, 0>>, <<10, 10>>, <<0, 10>>>>
    /\ Segments(ctx)[2].h1.direction = [v |-> <<10, 10>>, unit |-> TRUE]
    /\ Segments(ctx)[2].h2.direction = [v |-> <<-10, 10>>, unit |-> TRUE]

\* C16: in a glyph of N >= 3 points every handle is well defined (nothing
\* is divided by a zero length); if points[i] = points[i+1] both handles of
\* segment i collapse to that point; and a tangent vector of zero length
\* (points[i+1] = points[i-1], or points[i+2] = points[i]) gives the zero
\* direction, so that handle collapses onto its end point.
C16_DegenerateHandles ==
    (DrawnGlyph /\ Len(Current(board).points) >= 3) =>
        LET points == Current(board).points
            N == Len(points)
            segs == Segments(ctx)
        IN  \A i \in 0..(N - 2) :
                LET seg == segs[i + 1] IN
                /\ WellDefined(seg.h1)
                /\ WellDefined(seg.h2)
                /\ At(points, i) = At(points, i + 1) =>
                       /\ CollapsedTo(seg.h1, At(points, i))
                       /\ CollapsedTo(seg.h2, At(points, i))
                /\ (i >= 1 /\ At(points, i + 1) = At(points, i - 1)) =>
                       /\ seg.h1.direction = Vector2D_zero
                       /\ CollapsedTo(seg.h1, At(points, i))
                /\ (i <= N - 3 /\ At(points, i + 2) = At(points, i)) =>
                       /\ seg.h2.direction = Vector2D_zero
                       /\ CollapsedTo(seg.h2, At(points, i + 1))

\* draw has just rendered (0,0), (10,0), (0,0), (0,0): the tangent at
\* (10,0) has zero length and the last two points coincide.
C16_Witness ==
    /\ DrawnGlyph
    /\ Current(board).points = <<<<0, 0>>, <<10, 0>>, <<0, 0>>, <<0, 0>>>>
    /\ CollapsedTo(Segments(ctx)[1].h2, <<10, 0>>)
    /\ CollapsedTo(Segments(ctx)[3].h1, <<0, 0>>)
    /\ CollapsedTo(Segments(ctx)[3].h2, <<0, 0>>)

\* C18: for N >= 3 the first segment's handle1 is points[0] +
\* (points[1] - points[0])/3 and its handle2 uses next = points[2]; the
\* last segment's handle2 is points[N-1] - (points[N-1] - points[N-2])/3
\* and its handle1 uses prev = points[N-3]; every segment i between them
\* uses prev = points[i-1] and next = points[i+2].
C18_EndHandles ==
    (DrawnGlyph /\ Len(Current(board).points) >= 3) =>
        LET points == Current(board).points
            N == Len(points)
            segs == Segments(ctx)
            first == segs[1]
            last == segs[N - 1]
        IN  /\ first.h1 =
                  [base |-> At(points, 0), sign |-> 1,
                   direction |-> [v |-> Minus(At(points, 1), At(points, 0)),
                                  unit |-> FALSE],
                   length_of |-> <<>>, ratio |-> <<1, 3>>]
            /\ first.h2 =
                  [base |-> At(points, 1), sign |-> -1,
                   direction |-> Tangent(Minus(At(points, 2), At(points, 0))),
                   length_of |-> <<Minus(At(points, 1), At(points, 0))>>,
                   ratio |-> <<1, 3>>]
            /\ last.h2 =
                  [base |-> At(points, N - 1), sign |-> -1,
                   direction |->
                       [v |-> Minus(At(points, N - 1), At(points, N - 2)),
                        unit |-> FALSE],
                   length_of |-> <<>>, ratio |-> <<1, 3>>]
            /\ last.h1 =
                  [base |-> At(points, N - 2), sign |-> 1,
                   direction |->
                       Tangent(Minus(At(points, N - 1), At(points, N - 3))),
                   length_of |-> <<Minus(At(points, N - 1), At(points, N - 2))>>,
                   ratio |-> <<1, 3>>]
            /\ \A i \in 1..(N - 3) :
                   /\ segs[i + 1].h1 =
                         [base |-> At(points, i), sign |-> 1,
                          direction |->
                              Tangent(Minus(At(points, i + 1), At(points, i - 1))),
                          length_of |-> <<Minus(At(points, i + 1), At(points, i))>>,
                          ratio |-> <<1, 3>>]
                   /\ segs[i + 1].h2 =
                         [base |-> At(points, i + 1), sign |-> -1,
                          direction |->
                              Tangent(Minus(At(points, i + 2), At(points, i))),
                          length_of |-> <<Minus(At(points, i + 1), At(points, i))>>,
                          ratio |-> <<1, 3>>]

\* draw has just rendered the five-point glyph (0,0), (10,0), (10,10),
\* (0,10), (0,0): both end segments and two segments between them.
C18_Witness ==
    /\ DrawnGlyph
    /\ Current(board).points =
          <<<<0, 0>>, <<10, 0>>, <<10, 10>>, <<0, 10>>, <<0, 0>>>>
    /\ Segments(ctx)[1].h1.direction = [v |-> <<10, 0>>, unit |-> FALSE]
    /\ Segments(ctx)[4].h2.direction = [v |-> <<0, -10>>, unit |-> FALSE]

\* The style in effect at call k of calls, on a context the caller has set
\* to style: cairo keeps the last source and line cap set, and the width
\* until one is set.
RECURSIVE StyleAt(_, _, _)
StyleAt(calls, k, style) ==
    IF k <= 1 THEN style
    ELSE LET before == StyleAt(calls, k - 1, style)
             c == calls[k - 1]
         IN  IF c.op = "set_source_rgb" THEN [before EXCEPT !.rgb = c.rgb]
             ELSE IF c.op = "set_line_cap" THEN [before EXCEPT !.cap = c.cap]
             ELSE before

\* C17: rendering does not alter the caller-supplied stroke style: the
\* width, colour and cap in effect when draw strokes any segment are the
\* ones the caller supplied.
C17_StyleUnchanged ==
    (result.op = "draw" /\ ~panicked) =>
        \A k \in 1..Len(ctx) :
            ctx[k].op = "stroke" => StyleAt(ctx, k, result.arg[1]) = result.arg[1]

\* SubSeq(longer, 1, Len(shorter)) = shorter.
IsPrefix(shorter, longer) ==
    /\ Len(shorter) <= Len(longer)
    /\ \A i \in 1..Len(shorter) : longer[i] = shorter[i]

\* C19: every glyph of the board has at least one point; the glyph in
\* progress changes only by points appended to it and a finished glyph
\* never changes; the finished glyphs only grow, by the glyph in progress
\* as it is when finish succeeds, and there are as many as finish calls
\* that succeeded.
C19_GlyphsOnlyGrow ==
    /\ [](
          /\ \A g \in Glyphs(board) : Len(g.points) >= 1
          /\ Len(Finished(board)) = nFinish
         )
    /\ [][
          /\ IsPrefix(Finished(board), Finished(board'))
          /\ Len(Finished(board')) <= Len(Finished(board)) + 1
          /\ (Len(Finished(board')) = Len(Finished(board)) + 1) <=>
                 (result'.op = "finish" /\ result'.ret.ok)
          /\ (board.tag = "Active" /\ board'.tag = "Active") =>
                 /\ IsPrefix(Current(board).points, Current(board').points)
                 /\ Len(Current(board').points) <=
                        Len(Current(board).points) + 1
          /\ (board.tag = "Active" /\ board'.tag = "Static") =>
                 Finished(board') = Append(Finished(board), Current(board))
         ]_vars

\* The third finish has just succeeded, on a glyph of two points.
C19_Witness ==
    /\ result.op = "finish"
    /\ result.ret.ok
    /\ nFinish = 3
    /\ Len(Finished(board)) = 3
    /\ Finished(board)[3].points = <<<<0, 0>>, <<10, 0>>>>
    /\ Finished(board)[1] # Finished(board)[2]

\* What C20 says of the states: last_pos is Some only between a press with
\* coordinates and the next release, and then the last line ends there.
LastPosTracksLines ==
    /\ last_pos.some => held
    /\ last_pos.some =>
           /\ lines # <<>>
           /\ lines[Len(lines)][2] = last_pos.value

\* What C20 says of the steps, but for when a motion event appends: the
\* line appended starts where the last line ends, and a motion event with
\* no button held, a release and a draw event leave lines unchanged.
LinesStep ==
    /\ (result'.op = "motion_notify" /\ lines' # lines) =>
           /\ lines' = Append(lines, <<last_pos.value, result'.arg[1].value>>)
           /\ lines'[Len(lines')][1] = lines[Len(lines)][2]
    /\ (result'.op = "motion_notify" /\ ~held) => lines' = lines
    /\ (result'.op = "motion_notify" /\ ~last_pos.some) => lines' = lines
    /\ result'.op = "button_release" => lines' = lines /\ ~last_pos'.some
    /\ result'.op = "draw_event" => lines' = lines /\ last_pos' = last_pos
    /\ (result'.op = "button_press" /\ result'.arg[1].some) =>
           last_pos' = result'.arg[1]

\* C20 as stated: in the event handlers of Oxiboard, last_pos is Some only
\* after a press with coordinates and before the next release; a motion
\* event appends a line iff last_pos is Some, the line starting at the end
\* of the last line; motion with no button held, release and draw leave
\* lines unchanged.
C20_AsStated ==
    /\ []LastPosTracksLines
    /\ [][/\ LinesStep
           /\ result'.op = "motion_notify" =>
                  ((Len(lines') = Len(lines) + 1) <=> last_pos.some)
          ]_vars

\* C20 as amended: a motion event appends a line iff last_pos is Some and
\* the event has coordinates; the rest as stated.
C20_Amended ==
    /\ []LastPosTracksLines
    /\ [][/\ LinesStep
           /\ result'.op = "motion_notify" =>
                  ((Len(lines') = Len(lines) + 1) <=>
                       (last_pos.some /\ result'.arg[1].some))
          ]_vars

\* A motion event has just appended the line (0,0) -> (10,10) after the
\* line of the press at (0,0).
C20_Witness ==
    /\ result.op = "motion_notify"
    /\ held
    /\ lines = << <<<<0, 0>>, <<0, 0>>>>, <<<<0, 0>>, <<10, 10>>>> >>
    /\ last_pos = Some(<<10, 10>>)

====
